---- MODULE Spec2Model ----
(***************************************************************************)
(* A model of log_analyzer (src/src/main.rs): one run of `main`, which     *)
(* loads a log file line by line (load_logs / parse_log_line), then either *)
(* filters the records (filter_logs / display_logs) or counts them by      *)
(* level (summarize_logs / display_overview).                              *)
(*                                                                         *)
(* Text is a sequence of one-character strings, so that the regular        *)
(* expression, the chrono format and the case conversion are computed      *)
(* character by character.                                                 *)
(***************************************************************************)
EXTENDS Integers, Sequences, FiniteSets, TLC

\* Option<T>: None is the empty sequence and Some(x) the sequence of x alone
None == <<>>

Some(x) == <<x>>

\* ------------------------------------------------------------------------
\* Character classes of the regex crate (restricted to the ASCII alphabet
\* the inputs below are written in).
\* ------------------------------------------------------------------------
Digits == <<"0", "1", "2", "3", "4", "5", "6", "7", "8", "9">>

\* \d
IsDigit(c) == \E k \in 1..Len(Digits) : Digits[k] = c

\* the numeric value of an ASCII digit
DigitVal(c) == (CHOOSE k \in 1..Len(Digits) : Digits[k] = c) - 1

\* \s
IsSpace(c) == c \in {" ", "\t"}

Upper == <<"A", "B", "C", "D", "E", "F", "G", "H", "I", "J", "K", "L", "M",
           "N", "O", "P", "Q", "R", "S", "T", "U", "V", "W", "X", "Y", "Z">>

Lower == <<"a", "b", "c", "d", "e", "f", "g", "h", "i", "j", "k", "l", "m",
           "n", "o", "p", "q", "r", "s", "t", "u", "v", "w", "x", "y", "z">>

IsUpper(c) == \E k \in 1..Len(Upper) : Upper[k] = c

IsLower(c) == \E k \in 1..Len(Lower) : Lower[k] = c

\* \w
IsWord(c) == IsUpper(c) \/ IsLower(c) \/ IsDigit(c) \/ c = "_"

\* char::to_uppercase on the ASCII alphabet
UpperChar(c) == IF IsLower(c) THEN Upper[CHOOSE k \in 1..Len(Lower) : Lower[k] = c] ELSE c

\* str::to_uppercase
to_uppercase(s) == [i \in 1..Len(s) |-> UpperChar(s[i])]

SetMin(S) == CHOOSE x \in S : \A y \in S : x <= y

SetMax(S) == CHOOSE x \in S : \A y \in S : y <= x

\* the first position >= i of s that holds no whitespace (Len(s)+1 if none):
\* where a greedy \s* (regex) or trim_start (chrono) stops
SkipSpace(s, i) == SetMin({j \in i..(Len(s) + 1) : j = Len(s) + 1 \/ ~IsSpace(s[j])})

\* the first position >= i of s that holds no word character: where a greedy
\* \w+ stops
SkipWord(s, i) == SetMin({j \in i..(Len(s) + 1) : j = Len(s) + 1 \/ ~IsWord(s[j])})

\* ------------------------------------------------------------------------
\* chrono: NaiveDateTime::parse_from_str(s, "%d/%m/%Y %H:%M")
\* ------------------------------------------------------------------------

\* scan::number(s, 1, max) after trim_start: the digits read from position i
\* (at least one, at most max); n = 0 when there is none
ScanNumber(s, i, max) ==
    LET from == SkipSpace(s, i)
        n == SetMax({k \in 0..max : \A j \in from..(from + k - 1) : j <= Len(s) /\ IsDigit(s[j])})
        val[k \in 0..n] == IF k = 0 THEN 0 ELSE val[k - 1] * 10 + DigitVal(s[from + k - 1])
    IN  [n |-> n, value |-> val[n], next |-> from + n]

\* a literal character of the format at position i
Literal(s, i, c) == i <= Len(s) /\ s[i] = c

IsLeap(y) == (y % 4 = 0 /\ y % 100 # 0) \/ y % 400 = 0

DaysInMonth(y, m) ==
    IF m = 2 THEN (IF IsLeap(y) THEN 29 ELSE 28)
    ELSE IF m \in {4, 6, 9, 11} THEN 30 ELSE 31

\* Parsed::to_naive_datetime_with_offset: the fields must name a calendar
\* day and a time of day
ValidDateTime(y, mo, d, h, mi) ==
    /\ mo \in 1..12
    /\ d >= 1 /\ d <= DaysInMonth(y, mo)
    /\ h \in 0..23
    /\ mi \in 0..59

\* the items of "%d/%m/%Y %H:%M" in order; None is the Err the caller turns
\* into None with .ok()
parse_from_str(s) ==
    LET d  == ScanNumber(s, 1, 2)
        mo == ScanNumber(s, d.next + 1, 2)
        y  == ScanNumber(s, mo.next + 1, 4)
        h  == ScanNumber(s, SkipSpace(s, y.next), 2)
        mi == ScanNumber(s, h.next + 1, 2)
    IN  IF /\ d.n > 0 /\ Literal(s, d.next, "/")
           /\ mo.n > 0 /\ Literal(s, mo.next, "/")
           /\ y.n > 0
           /\ h.n > 0 /\ Literal(s, h.next, ":")
           /\ mi.n > 0 /\ mi.next = Len(s) + 1
           /\ ValidDateTime(y.value, mo.value, d.value, h.value, mi.value)
        THEN Some(<<y.value, mo.value, d.value, h.value, mi.value>>)
        ELSE None

\* ------------------------------------------------------------------------
\* LOG_REGEX = (\d{2}/\d{2}/\d{4} \d{2}:\d{2});\s*(\w+);\s*(.+)
\* ------------------------------------------------------------------------

\* \d{2}/\d{2}/\d{4} \d{2}:\d{2} at positions i..i+15 of s
TimestampAt(s, i) ==
    /\ i + 15 <= Len(s)
    /\ \A j \in {0, 1, 3, 4, 6, 7, 8, 9, 11, 12, 14, 15} : IsDigit(s[i + j])
    /\ s[i + 2] = "/" /\ s[i + 5] = "/" /\ s[i + 10] = " " /\ s[i + 13] = ":"

\* the match of LOG_REGEX that starts at position i, or None. The greedy \s*
\* and \w+ end at the first character outside their class; the last \s*
\* gives one whitespace character back when nothing else is left for (.+).
MatchAt(s, i) ==
    IF ~(TimestampAt(s, i) /\ Literal(s, i + 16, ";")) THEN None
    ELSE LET w    == SkipSpace(s, i + 17)
             wend == SkipWord(s, w)
             m    == SkipSpace(s, wend + 1)
         IN  IF ~(wend > w /\ Literal(s, wend, ";")) THEN None
             ELSE IF m <= Len(s)
                  THEN Some(<<SubSeq(s, i, i + 15), SubSeq(s, w, wend - 1), SubSeq(s, m, Len(s))>>)
             ELSE IF m > wend + 1
                  THEN Some(<<SubSeq(s, i, i + 15), SubSeq(s, w, wend - 1), SubSeq(s, Len(s), Len(s))>>)
             ELSE None

\* Regex::captures: the leftmost match anywhere in the line (the pattern has
\* no ^ anchor), or None
captures(line) ==
    LET starts == {i \in 1..Len(line) : MatchAt(line, i) # None}
    IN  IF starts = {} THEN None ELSE MatchAt(line, SetMin(starts))

\* struct LogEntry
LogEntry(timestamp, log_type, message) ==
    [timestamp |-> timestamp, log_type |-> log_type, message |-> message]

parse_log_line(line) ==
    LET caps == captures(line)
    IN  IF caps = None THEN None
        ELSE LET timestamp == parse_from_str(caps[1][1])
             IN  IF timestamp = None THEN None
                 ELSE Some(LogEntry(timestamp[1], caps[1][2], caps[1][3]))

\* ------------------------------------------------------------------------
\* filter_logs
\* ------------------------------------------------------------------------

\* the Ord of NaiveDateTime on <<year, month, day, hour, minute>>: the first
\* field that differs decides
DateTimeLe(a, b) ==
    LET diff == {k \in 1..5 : a[k] # b[k]}
    IN  diff = {} \/ a[SetMin(diff)] < b[SetMin(diff)]

\* str::contains
contains(message, keyword) ==
    \E i \in 0..(Len(message) - Len(keyword)) : SubSeq(message, i + 1, i + Len(keyword)) = keyword

\* #[derive(Debug)] on LogLevel: the variant's name
DebugFmt(level) ==
    CASE level = "Error"   -> <<"E", "r", "r", "o", "r">>
      [] level = "Warning" -> <<"W", "a", "r", "n", "i", "n", "g">>
      [] level = "Info"    -> <<"I", "n", "f", "o">>
      [] level = "Debug"   -> <<"D", "e", "b", "u", "g">>
      [] level = "Trace"   -> <<"T", "r", "a", "c", "e">>

\* a faulty variant: a time that does not parse becomes NaiveDateTime::default()
and_then_parse_or_default(time) ==
    IF time = None THEN None
    ELSE IF parse_from_str(time[1]) = None THEN Some(<<1970, 1, 1, 0, 0>>)
    ELSE parse_from_str(time[1])

\* start_time.and_then(|s| NaiveDateTime::parse_from_str(&s, ...).ok())
and_then_parse(time) == IF time = None THEN None ELSE parse_from_str(time[1])

\* log_level.map(|level| format!("{:?}", level).to_uppercase())
level_to_str(log_level) ==
    IF log_level = None THEN None ELSE Some(to_uppercase(DebugFmt(log_level[1])))

\* keyword.unwrap_or_default()
unwrap_or_default(keyword) == IF keyword = None THEN <<>> ELSE keyword[1]

\* a faulty variant: the level is compared without regard to case
filter_closure_ignore_case(log, start_dt, end_dt, level_str, keyword_str) ==
    /\ start_dt # None => DateTimeLe(start_dt[1], log.timestamp)
    /\ end_dt # None => DateTimeLe(log.timestamp, end_dt[1])
    /\ level_str # None => to_uppercase(log.log_type) = level_str[1]
    /\ keyword_str # <<>> => contains(log.message, keyword_str)

\* a faulty variant: the lower bound is compared with > instead of >=
filter_closure_exclusive_start(log, start_dt, end_dt, level_str, keyword_str) ==
    /\ start_dt # None => ~DateTimeLe(log.timestamp, start_dt[1])
    /\ end_dt # None => DateTimeLe(log.timestamp, end_dt[1])
    /\ level_str # None => log.log_type = level_str[1]
    /\ keyword_str # <<>> => contains(log.message, keyword_str)

\* the closure given to .filter(): valid starts true and each criterion that
\* is present is and-ed into it
filter_closure(log, start_dt, end_dt, level_str, keyword_str) ==
    LET valid0 == TRUE
        valid1 == IF start_dt # None THEN valid0 /\ DateTimeLe(start_dt[1], log.timestamp) ELSE valid0
        valid2 == IF end_dt # None THEN valid1 /\ DateTimeLe(log.timestamp, end_dt[1]) ELSE valid1
        valid3 == IF level_str # None THEN valid2 /\ log.log_type = level_str[1] ELSE valid2
        valid4 == IF keyword_str # <<>> /\ ~contains(log.message, keyword_str)
                  THEN valid3 /\ FALSE ELSE valid3
    IN  valid4

\* a faulty variant: above 1000 records the filter goes a parallel way
iter_kind_by_threshold(logs) == IF Len(logs) > 1000 THEN "parallel" ELSE "sequential"

\* logs.iter(): the slice's iterator, which walks the records one after the
\* other on the calling thread whatever their number
iter_kind(logs) == "sequential"

\* logs.iter().filter(|log| ..).collect(): the records the closure keeps, in
\* iteration order
filter_logs(logs, start_time, end_time, log_level, keyword) ==
    LET start_dt    == and_then_parse(start_time)
        end_dt      == and_then_parse(end_time)
        level_str   == level_to_str(log_level)
        keyword_str == unwrap_or_default(keyword)
    IN  SelectSeq(logs, LAMBDA log : filter_closure(log, start_dt, end_dt, level_str, keyword_str))

\* ------------------------------------------------------------------------
\* summarize_logs
\* ------------------------------------------------------------------------

\* a faulty variant: a new key starts at 1 and is then incremented like the others
or_insert_one(map, key, default) ==
    IF key \in DOMAIN map THEN map
    ELSE [k \in DOMAIN map \cup {key} |-> IF k = key THEN 1 ELSE map[k]]

\* HashMap::entry(key).or_insert(default)
or_insert(map, key, default) ==
    IF key \in DOMAIN map THEN map
    ELSE [k \in DOMAIN map \cup {key} |-> IF k = key THEN default ELSE map[k]]

\* *counter += 1
increment(map, key) == [map EXCEPT ![key] = @ + 1]

summarize_logs(logs) ==
    LET summary[i \in 0..Len(logs)] ==
            IF i = 0 THEN <<>>
            ELSE increment(or_insert(summary[i - 1], logs[i].log_type, 0), logs[i].log_type)
    IN  summary[Len(logs)]

\* ------------------------------------------------------------------------
\* The inputs of a run: the log file and the command line
\* ------------------------------------------------------------------------

\* the most lines an input file holds
MaxLines == 2

\* "15/03/2024 09:30; ERROR; disk full"
LineError ==
    <<"1", "5", "/", "0", "3", "/", "2", "0", "2", "4", " ", "0", "9", ":",
    "3", "0", ";", " ", "E", "R", "R", "O", "R", ";", " ", "d", "i", "s",
    "k", " ", "f", "u", "l", "l">>

\* "14/03/2024 23:59;error;a;b": lower-case level, no blanks, a semicolon in the message
LineLower ==
    <<"1", "4", "/", "0", "3", "/", "2", "0", "2", "4", " ", "2", "3", ":",
    "5", "9", ";", "e", "r", "r", "o", "r", ";", "a", ";", "b">>

\* "x15/03/2024 09:31; FATAL; y": text before the timestamp
LinePrefixed ==
    <<"x", "1", "5", "/", "0", "3", "/", "2", "0", "2", "4", " ", "0", "9",
    ":", "3", "1", ";", " ", "F", "A", "T", "A", "L", ";", " ", "y">>

\* "31/02/2024 09:30; ERROR; x": no such day
LineBadDate ==
    <<"3", "1", "/", "0", "2", "/", "2", "0", "2", "4", " ", "0", "9", ":",
    "3", "0", ";", " ", "E", "R", "R", "O", "R", ";", " ", "x">>

\* "not a log line"
LinePlain ==
    <<"n", "o", "t", " ", "a", " ", "l", "o", "g", " ", "l", "i", "n", "e">>

\* a line of the file as reader.lines() yields it: Ok(text), or Err when the
\* bytes are not valid UTF-8
Ok(text) == [ok |-> TRUE, text |-> text]

Err == [ok |-> FALSE, text |-> <<>>]

FileLines ==
    {Ok(LineError), Ok(LineLower), Ok(LinePrefixed), Ok(LineBadDate), Ok(LinePlain), Err}

SeqsUpTo(S, n) == UNION {[1..k -> S] : k \in 0..n}

\* The content of a file is written as its runs of equal lines: the line and
\* how many times it comes in a row.
Run(line, times) == [line |-> line, times |-> times]

\* the number of lines before run k
LinesBefore(runs, k) ==
    LET before[j \in 0..Len(runs)] == IF j = 0 THEN 0 ELSE before[j - 1] + runs[j].times
    IN  before[k - 1]

\* the number of lines of the file
LineCount(runs) == LinesBefore(runs, Len(runs) + 1)

\* the i-th line of the file, as reader.lines() yields it
LineAt(runs, i) ==
    LET k == CHOOSE j \in DOMAIN runs :
                 LinesBefore(runs, j) < i /\ i <= LinesBefore(runs, j) + runs[j].times
    IN  runs[k].line

\* the file at args.log_path: None when it cannot be opened
Files == {None} \cup {Some(f) : f \in SeqsUpTo({Run(l, 1) : l \in FileLines}, MaxLines)}

\* --start-time or --end-time "15/03/2024 09:30"
TimeBound ==
    <<"1", "5", "/", "0", "3", "/", "2", "0", "2", "4", " ", "0", "9", ":",
    "3", "0">>

\* "2024-03-15 09:30": not in the format dd/mm/yyyy hh:mm
TimeIso ==
    <<"2", "0", "2", "4", "-", "0", "3", "-", "1", "5", " ", "0", "9", ":",
    "3", "0">>

\* "15/03/2024 24:00": no such hour
TimeHour24 ==
    <<"1", "5", "/", "0", "3", "/", "2", "0", "2", "4", " ", "2", "4", ":",
    "0", "0">>

\* --keyword full
KeywordFull ==
    <<"f", "u", "l", "l">>

\* enum LogLevel
LogLevel == {"Error", "Warning", "Info", "Debug", "Trace"}

OutPath == "out.txt"

Outputs == {None, Some(OutPath)}

\* enum Commands
Analyze(start_time, end_time, log_level, keyword) ==
    [name |-> "Analyze", start_time |-> start_time, end_time |-> end_time,
     log_level |-> log_level, keyword |-> keyword]

Overview ==
    [name |-> "Overview", start_time |-> None, end_time |-> None,
     log_level |-> None, keyword |-> None]

\* the commands of the runs: start, end, level and keyword each absent or
\* present in every combination, the times also in texts that do not parse,
\* and on their own the other levels and the empty keyword
CommandsSet ==
    {Overview} \cup
    {Analyze(s, e, l, k) :
        s \in {None, Some(TimeBound), Some(TimeIso)},
        e \in {None, Some(TimeBound), Some(TimeHour24)},
        l \in {None, Some("Error")},
        k \in {None, Some(KeywordFull)}} \cup
    {Analyze(None, None, Some(l), None) : l \in LogLevel} \cup
    {Analyze(s, None, None, Some(<<>>)) : s \in {None, Some(TimeBound)}}

\* struct Cli (log_path is represented by the file it names)
Cli == [command : CommandsSet, output : Outputs]

\* ------------------------------------------------------------------------
\* Rendering
\* ------------------------------------------------------------------------

\* the decimal digits of n, at least width of them (zero padded)
Decimal(n, width) ==
    LET digits[k \in Nat] ==
            IF k < 10 THEN <<Digits[k + 1]>> ELSE Append(digits[k \div 10], Digits[(k % 10) + 1])
        pad[t \in Seq(STRING)] == IF Len(t) >= width THEN t ELSE pad[<<"0">> \o t]
    IN  pad[digits[n]]

\* NaiveDateTime's Display: "yyyy-mm-dd hh:mm:ss" (the seconds are always 00)
datetime_to_string(t) ==
    Decimal(t[1], 4) \o <<"-">> \o Decimal(t[2], 2) \o <<"-">> \o Decimal(t[3], 2) \o <<" ">>
        \o Decimal(t[4], 2) \o <<":">> \o Decimal(t[5], 2) \o <<":", "0", "0">>

\* comfy_table::Table: a header and the rows added to it
Table(header, rows) == [header |-> header, rows |-> rows]

NoTable == Table(<<>>, <<>>)

\* display_logs: the table built from the records, one row each
logs_table(logs) ==
    Table(<<"DateTime", "Level", "Message">>,
          [i \in 1..Len(logs) |->
              <<datetime_to_string(logs[i].timestamp), logs[i].log_type, logs[i].message>>])

\* display_overview: the table built from the summary, its rows in the order
\* the HashMap's iterator yields the keys
overview_table(summary, order) ==
    Table(<<"Log Level", "Count">>,
          [i \in 1..Len(order) |-> <<order[i], Decimal(summary[order[i]], 1)>>])

\* the orders a HashMap with these keys may be iterated in
IterationOrders(keys) ==
    {order \in [1..Cardinality(keys) -> keys] : \A k \in keys : \E i \in DOMAIN order : order[i] = k}

\* what is written to the terminal or to the output file
TableText(table) == [kind |-> "table", table |-> table, count |-> 0]

RowCountLine(table) == [kind |-> "row-count", table |-> NoTable, count |-> Len(table.rows)]

DurationLine == [kind |-> "duration", table |-> NoTable, count |-> 0]

\* what the output file holds before the run
PreviousContent == <<[kind |-> "previous", table |-> NoTable, count |-> 0]>>

\* ------------------------------------------------------------------------
\* The run of main
\* ------------------------------------------------------------------------
VARIABLES
    args,           \* Cli::parse()
    file,           \* the file at args.log_path (None: it cannot be opened)
    pc,             \* where the run is
    lines_read,     \* how many lines reader.lines() has yielded
    logs,           \* load_logs: the vector being filled
    log_entries,    \* main: None until load_logs has returned it
    filtered_logs,  \* main: None until filter_logs has returned it
    filter_path,    \* how filter_logs walked the records ("none" before it ran)
    summary,        \* main: None until summarize_logs has returned it
    stdout,         \* what has been printed to the terminal
    out_file,       \* the content of the file at OutPath
    result          \* "running", then "Ok", "Err" (main returns Err) or "panic"

vars == <<args, file, pc, lines_read, logs, log_entries, filtered_logs, filter_path,
          summary, stdout, out_file, result>>

Init ==
    /\ args \in Cli
    /\ file \in Files
    /\ pc = "main"
    /\ lines_read = 0
    /\ logs = <<>>
    /\ log_entries = None
    /\ filtered_logs = None
    /\ filter_path = "none"
    /\ summary = None
    /\ stdout = <<>>
    /\ out_file = PreviousContent
    /\ result = "running"

\* load_logs: File::open(log_path)?
load_logs_open ==
    /\ pc = "main"
    /\ IF file = None
       THEN pc' = "done" /\ result' = "Err"
       ELSE pc' = "load_logs" /\ result' = result
    /\ UNCHANGED <<args, file, lines_read, logs, log_entries, filtered_logs, filter_path, summary,
                   stdout, out_file>>

\* a faulty variant: a record equal to one already loaded is not pushed
push_if_some_dedup(vec, log_entry) ==
    IF log_entry # None /\ \A i \in DOMAIN vec : vec[i] # log_entry[1]
    THEN Append(vec, log_entry[1]) ELSE vec

\* if let Some(log_entry) = parse_log_line(&line) { logs.push(log_entry); }
push_if_some(vec, log_entry) == IF log_entry # None THEN Append(vec, log_entry[1]) ELSE vec

\* a faulty variant: the loop ends one line early
lines_exhausted_one_early == lines_read + 1 >= LineCount(file[1])

\* for line in reader.lines(): whether every line has been yielded
lines_exhausted == lines_read = LineCount(file[1])

\* load_logs: one turn of the loop: `line?` returns the Err of a line that
\* is not text, a line that parses is pushed, any other is passed over
load_logs_line ==
    /\ pc = "load_logs"
    /\ ~lines_exhausted
    /\ LET line == LineAt(file[1], lines_read + 1)
       IN  IF ~line.ok
           THEN pc' = "done" /\ result' = "Err" /\ logs' = logs
           ELSE /\ pc' = pc /\ result' = result
                /\ logs' = push_if_some(logs, parse_log_line(line.text))
    /\ lines_read' = lines_read + 1
    /\ UNCHANGED <<args, file, log_entries, filtered_logs, filter_path, summary, stdout, out_file>>

\* load_logs: Ok(logs), bound to log_entries in main
load_logs_return ==
    /\ pc = "load_logs"
    /\ lines_exhausted
    /\ log_entries' = Some(logs)
    /\ pc' = "match"
    /\ UNCHANGED <<args, file, lines_read, logs, filtered_logs, filter_path, summary, stdout,
                   out_file, result>>

\* main, Commands::Analyze: filter_logs(&log_entries, ...)
analyze_filter ==
    /\ pc = "match"
    /\ args.command.name = "Analyze"
    /\ filtered_logs' = Some(filter_logs(log_entries[1], args.command.start_time,
                                         args.command.end_time, args.command.log_level,
                                         args.command.keyword))
    /\ filter_path' = iter_kind(log_entries[1])
    /\ pc' = "display_logs"
    /\ UNCHANGED <<args, file, lines_read, logs, log_entries, summary, stdout, out_file,
                   result>>

\* main, Commands::Analyze: display_logs(filtered_logs, args.output). Whether
\* OpenOptions::open and writeln! succeed is the file system's choice; the
\* expect panics when they do not.
display_logs ==
    /\ pc = "display_logs"
    /\ LET table == logs_table(filtered_logs[1])
       IN  IF args.output = None
           THEN /\ stdout' = stdout \o <<TableText(table), RowCountLine(table)>>
                /\ out_file' = out_file
                /\ pc' = "elapsed" /\ result' = result
           ELSE \/ /\ out_file' = <<TableText(table)>>
                   /\ stdout' = stdout
                   /\ pc' = "elapsed" /\ result' = result
                \/ /\ out_file' = out_file
                   /\ stdout' = stdout
                   /\ pc' = "done" /\ result' = "panic"
    /\ UNCHANGED <<args, file, lines_read, logs, log_entries, filtered_logs, filter_path, summary>>

\* main, Commands::Overview: summarize_logs(&log_entries)
overview_summarize ==
    /\ pc = "match"
    /\ args.command.name = "Overview"
    /\ summary' = Some(summarize_logs(log_entries[1]))
    /\ pc' = "display_overview"
    /\ UNCHANGED <<args, file, lines_read, logs, log_entries, filtered_logs, filter_path,
                   stdout, out_file, result>>

\* main, Commands::Overview: display_overview(summary); args.output is not
\* passed to it
display_overview ==
    /\ pc = "display_overview"
    /\ \E order \in IterationOrders(DOMAIN summary[1]) :
          stdout' = Append(stdout, TableText(overview_table(summary[1], order)))
    /\ pc' = "elapsed"
    /\ UNCHANGED <<args, file, lines_read, logs, log_entries, filtered_logs, filter_path, summary,
                   out_file, result>>

\* main: println!("Tempo de execução: ..."); Ok(())
main_return ==
    /\ pc = "elapsed"
    /\ stdout' = Append(stdout, DurationLine)
    /\ result' = "Ok"
    /\ pc' = "done"
    /\ UNCHANGED <<args, file, lines_read, logs, log_entries, filtered_logs, filter_path, summary,
                   out_file>>

Next ==
    \/ load_logs_open
    \/ load_logs_line
    \/ load_logs_return
    \/ analyze_filter
    \/ display_logs
    \/ overview_summarize
    \/ display_overview
    \/ main_return

Spec == Init /\ [][Next]_vars

\* ------------------------------------------------------------------------
\* Runs over a large file
\* ------------------------------------------------------------------------

\* the number of lines of the large file
LargeCount == 1001

\* "14/03/2024 23:59;A;a"
LineShortA ==
    <<"1", "4", "/", "0", "3", "/", "2", "0", "2", "4", " ", "2", "3", ":", "5", "9", ";", "A", ";", "a">>

\* "15/03/2024 09:30;B;b"
LineShortB ==
    <<"1", "5", "/", "0", "3", "/", "2", "0", "2", "4", " ", "0", "9", ":", "3", "0", ";", "B", ";", "b">>

\* a file of LargeCount well-formed lines: the first, dated before TimeBound,
\* LargeCount - 1 times, then one dated at TimeBound
LargeFile == <<Run(Ok(LineShortA), LargeCount - 1), Run(Ok(LineShortB), 1)>>

InitLarge ==
    /\ args \in [command : {Analyze(None, None, None, None),
                            Analyze(None, None, Some("Error"), None),
                            Analyze(Some(TimeBound), None, None, None),
                            Analyze(Some(TimeIso), Some(TimeBound), None, Some(<<>>))},
                 output : Outputs]
    /\ file = Some(LargeFile)
    /\ pc = "main"
    /\ lines_read = 0
    /\ logs = <<>>
    /\ log_entries = None
    /\ filtered_logs = None
    /\ filter_path = "none"
    /\ summary = None
    /\ stdout = <<>>
    /\ out_file = PreviousContent
    /\ result = "running"

\* the steps of a run of the Analyze command
NextAnalyze ==
    \/ load_logs_open
    \/ load_logs_line
    \/ load_logs_return
    \/ analyze_filter
    \/ display_logs
    \/ main_return

SpecLarge == InitLarge /\ [][NextAnalyze]_vars

\* ========================================================================
\* Properties
\* ========================================================================

\* what main holds once the file is loaded
store == log_entries[1]

\* the positions of a sequence
Range(seq) == {seq[i] : i \in DOMAIN seq}

\* out is seq restricted to the positions idx, in their order: the i-th
\* position of idx is found at the place its rank in idx gives
IsSelection(out, seq, idx) ==
    /\ Len(out) = Cardinality(idx)
    /\ \A i \in idx : out[Cardinality({j \in idx : j <= i})] = seq[i]

\* a date-time as a count of minutes (months of 31 days, which keeps the order)
Minutes(t) == (((t[1] * 12 + t[2]) * 31 + t[3]) * 24 + t[4]) * 60 + t[5]

\* the instant a time text of the command line names, None when it names none
Instant(time) ==
    IF time = Some(TimeBound) THEN Some(<<2024, 3, 15, 9, 30>>) ELSE None

\* the upper-case name of a level
UpperName(level) ==
    CASE level = "Error"   -> <<"E", "R", "R", "O", "R">>
      [] level = "Warning" -> <<"W", "A", "R", "N", "I", "N", "G">>
      [] level = "Info"    -> <<"I", "N", "F", "O">>
      [] level = "Debug"   -> <<"D", "E", "B", "U", "G">>
      [] level = "Trace"   -> <<"T", "R", "A", "C", "E">>

\* keyword occurs in message at some position
Occurs(keyword, message) ==
    \E at \in 1..(Len(message) + 1) :
        \A j \in 1..Len(keyword) : at + j - 1 <= Len(message) /\ message[at + j - 1] = keyword[j]

\* the record satisfies every criterion the command specifies
Satisfies(r, command) ==
    /\ Instant(command.start_time) # None
          => Minutes(r.timestamp) >= Minutes(Instant(command.start_time)[1])
    /\ Instant(command.end_time) # None
          => Minutes(r.timestamp) <= Minutes(Instant(command.end_time)[1])
    /\ command.log_level # None => r.log_type = UpperName(command.log_level[1])
    /\ command.keyword # None => Occurs(command.keyword[1], r.message)

NoCriteria(command) ==
    /\ command.start_time = None /\ command.end_time = None
    /\ command.log_level = None /\ command.keyword = None

\* C1: filter_logs returns exactly the records that satisfy every specified
\* criterion (both time bounds inclusive, the level equal to the requested
\* one, the keyword contained in the message), in store order and each once;
\* with no criterion it returns the whole store.
C1_FilterSelectsExactly ==
    filtered_logs # None =>
        /\ IsSelection(filtered_logs[1], store,
                       {i \in DOMAIN store : Satisfies(store[i], args.command)})
        /\ NoCriteria(args.command) => filtered_logs[1] = store

\* C1 witness: all four criteria given, two records loaded, one selected
C1_Witness ==
    /\ filtered_logs # None
    /\ args.command.start_time = Some(TimeBound) /\ args.command.end_time = Some(TimeBound)
    /\ args.command.log_level # None /\ args.command.keyword = Some(KeywordFull)
    /\ Len(store) = 2 /\ Len(filtered_logs[1]) = 1

\* C2: when an output path is given, for Analyze and for Overview alike, a
\* run that completes has written the rendered table to that file in place
\* of its previous content, and has printed neither the table nor a
\* row-count line to the terminal.
C2_OutputGoesToFileOnly ==
    (result = "Ok" /\ args.output # None) =>
        /\ Len(out_file) = 1 /\ out_file[1].kind = "table"
        /\ \A i \in DOMAIN stdout : stdout[i].kind \notin {"table", "row-count"}

\* the lines of the file (once it is open)
lines == [i \in 1..LineCount(file[1]) |-> LineAt(file[1], i)]

\* what parse_log_line makes of each line (None for a line that does not parse)
Records == [i \in DOMAIN lines |-> parse_log_line(lines[i].text)]

\* the record of each line that parses
RecordOf == [i \in DOMAIN lines |-> Records[i][1]]

\* the positions among the first n lines that parse_log_line turns into a record
Parsing(n) == {i \in 1..n : lines[i].ok /\ Records[i] # None}

\* C3: a file of N lines of which M do not parse is loaded as exactly N-M
\* records, one per line that parses, in the order of those lines and
\* without deduplication (so none for an empty file or a file of malformed
\* lines only): so is the store when load_logs returns it, and while
\* loading the vector holds the records of the lines read so far.
C3_LoadKeepsParsedLinesInOrder ==
    /\ pc = "load_logs" => IsSelection(logs, RecordOf, Parsing(lines_read))
    /\ (pc = "match" /\ log_entries # None) =>
          LET N == Len(lines)
              M == Cardinality({i \in 1..N : Records[i] = None})
          IN  /\ Len(store) = N - M
              /\ IsSelection(store, RecordOf, Parsing(N))

\* C3 witness: a loaded file of two equal well-formed lines (two records)
C3_Witness ==
    /\ log_entries # None
    /\ Len(lines) = 2 /\ lines[1] = lines[2] /\ Len(store) = 2

\* C4: once the input file is open, load_logs returns Ok whatever the lines
\* hold: a line that cannot be made a record, one that cannot be read as
\* text included, is skipped and loading goes on to the end of the file.
C4_LoadReturnsOkOnceOpened ==
    (file # None /\ pc \notin {"main", "load_logs"}) =>
        /\ log_entries # None
        /\ lines_read = Len(lines)

\* the level tokens present in the store
Tokens == {store[i].log_type : i \in DOMAIN store}

\* C5: the keys of the summary are exactly the distinct level tokens of the
\* store as they were written (no case folding), each counted as often as
\* records hold exactly that token; no key has count 0 and an empty store
\* gives an empty summary.
C5_SummaryCountsLiteralTokens ==
    summary # None =>
        /\ DOMAIN summary[1] = Tokens
        /\ \A key \in DOMAIN summary[1] :
              /\ summary[1][key] = Cardinality({i \in DOMAIN store : store[i].log_type = key})
              /\ summary[1][key] > 0
        /\ store = <<>> => DOMAIN summary[1] = {}

\* C5 witness: "ERROR" and "error" are two keys of the summary
C5_Witness ==
    /\ summary # None
    /\ Cardinality(DOMAIN summary[1]) = 2
    /\ \A key \in DOMAIN summary[1] : to_uppercase(key) = UpperName("Error")

\* the time text is given and does not parse in the format dd/mm/yyyy hh:mm
Unparseable(time) == time # None /\ parse_from_str(time[1]) = None

\* C6: a start or end time that does not parse disables that bound only: the
\* result is that of the same call without the bound (the other criteria
\* still applied), and no error comes of it.
C6_UnparseableBoundIsNoBound ==
    /\ (filtered_logs # None /\ Unparseable(args.command.start_time)) =>
          filtered_logs[1] = filter_logs(store, None, args.command.end_time,
                                         args.command.log_level, args.command.keyword)
    /\ (filtered_logs # None /\ Unparseable(args.command.end_time)) =>
          filtered_logs[1] = filter_logs(store, args.command.start_time, None,
                                         args.command.log_level, args.command.keyword)
    /\ (log_entries # None /\ (Unparseable(args.command.start_time)
                                \/ Unparseable(args.command.end_time))) =>
          result # "Err"

\* C6 witness: neither bound parses, the level is given, and of two records
\* one is selected
C6_Witness ==
    /\ filtered_logs # None
    /\ Unparseable(args.command.start_time) /\ Unparseable(args.command.end_time)
    /\ args.command.log_level # None
    /\ Len(store) = 2 /\ Len(filtered_logs[1]) = 1

\* filtering, aggregation or rendering has begun
Consuming ==
    \/ pc \in {"display_logs", "display_overview", "elapsed"}
    \/ filtered_logs # None \/ summary # None \/ filter_path # "none"
    \/ stdout # <<>> \/ out_file # PreviousContent

\* C8: filtering, aggregation and rendering begin only when the whole file
\* has been read into the store, which does not change afterwards; when the
\* file cannot be opened the run fails with no line parsed, nothing
\* filtered or counted, and nothing written to the terminal or the file.
C8_LoadThenConsume ==
    /\ [](Consuming => (file # None /\ lines_read = Len(lines) /\ log_entries = Some(logs)))
    /\ [][log_entries # None => log_entries' = log_entries]_vars
    /\ []((file = None /\ pc # "main") =>
             (/\ pc = "done" /\ result = "Err"
              /\ lines_read = 0 /\ logs = <<>> /\ log_entries = None
              /\ ~Consuming))

\* C8 witness: a run over a file of two lines has printed its table
C8_Witness ==
    /\ pc = "done" /\ result = "Ok"
    /\ Len(lines) = 2 /\ Len(stdout) > 1

\* the upper-case names of the five levels
FiveNames == {UpperName(level) : level \in LogLevel}

\* C9: with a level filter, a record passes the level test iff its token is
\* character for character the upper-case name of the requested level; a
\* record whose token is none of the five upper-case names is selected
\* under no level filter, and summarize_logs still counts it.
C9_LevelTestIsExactUpperName ==
    /\ (filtered_logs # None /\ args.command.log_level # None) =>
          LET name == UpperName(args.command.log_level[1])
          IN  /\ \A r \in Range(filtered_logs[1]) : r.log_type = name
              /\ \A r \in Range(store) : r.log_type \notin FiveNames => r \notin Range(filtered_logs[1])
              /\ (args.command.start_time = None /\ args.command.end_time = None
                     /\ args.command.keyword = None) =>
                    \A r \in Range(store) : r.log_type = name => r \in Range(filtered_logs[1])
    /\ summary # None =>
          \A r \in Range(store) :
              r.log_type \in DOMAIN summary[1] /\ summary[1][r.log_type] >= 1

\* C9 witness: level Error alone is requested; of an "ERROR" and an "error"
\* record the first only is selected
C9_Witness ==
    /\ filtered_logs # None
    /\ args.command = Analyze(None, None, Some("Error"), None)
    /\ Len(store) = 2 /\ Len(filtered_logs[1]) = 1
    /\ \E r \in Range(store) : r.log_type # UpperName("Error") /\ to_uppercase(r.log_type) = UpperName("Error")

\* the line is <dd/mm/yyyy hh:mm> ; <word characters> ; <non-empty text>
\* from its first character on: a and b are the ends of the level token
ShapeWith(t, a, b) ==
    /\ TimestampAt(t, 1) /\ Len(t) >= 17 /\ t[17] = ";"
    /\ a <= b /\ \A j \in 18..(a - 1) : IsSpace(t[j])
    /\ \A j \in a..b : IsWord(t[j])
    /\ b + 2 <= Len(t) /\ t[b + 1] = ";"

\* the two digits at i make the number n
TwoDigits(t, i) == DigitVal(t[i]) * 10 + DigitVal(t[i + 1])

\* the timestamp field names a calendar day and a time of the 24-hour clock
FieldTime(t) ==
    <<TwoDigits(t, 7) * 100 + TwoDigits(t, 9), TwoDigits(t, 4), TwoDigits(t, 1),
      TwoDigits(t, 12), TwoDigits(t, 15)>>

FieldTimeValid(t) ==
    LET f == FieldTime(t) IN ValidDateTime(f[1], f[2], f[3], f[4], f[5])

\* what the claim says of one line and what parse_log_line made of it
ClaimHolds(t, entry) ==
    LET shaped == \E a, b \in 18..Len(t) : ShapeWith(t, a, b) /\ FieldTimeValid(t)
    IN  /\ entry # None <=> shaped
        /\ entry # None =>
              \E a, b \in 18..Len(t) :
                  /\ ShapeWith(t, a, b)
                  /\ entry[1].timestamp = FieldTime(t)
                  /\ entry[1].log_type = SubSeq(t, a, b)
                  /\ \E m \in (b + 2)..Len(t) :
                        /\ entry[1].message = SubSeq(t, m, Len(t))
                        /\ \A j \in (b + 2)..(m - 1) : IsSpace(t[j])

\* C10: parse_log_line yields a record iff the line has the shape
\* <dd/mm/yyyy hh:mm> ; <word characters> ; <non-empty text> with a valid
\* date and time, the record holding that timestamp, the level verbatim and
\* the text after the second delimiter; any other line yields no record.
C10_RecordIffLineHasShape ==
    (pc = "load_logs" /\ lines_read > 0) =>
        ClaimHolds(lines[lines_read].text, parse_log_line(lines[lines_read].text))

\* out is what evaluating the criteria record by record, in store order,
\* returns
IsSequentialResult(out) ==
    IsSelection(out, store, {i \in DOMAIN store : Satisfies(store[i], args.command)})

====
